---------------------------- MODULE Spec2Model ----------------------------
(***************************************************************************)
(* The cart page of src/refactoring3/components/CartPage.tsx: the catalog  *)
(* pane (search box, product cards with remaining stock and the add        *)
(* button), the cart pane (line items with the applied discount and the    *)
(* - / + / delete buttons) and the membership and coupon selectors.        *)
(*                                                                         *)
(* The page's collaborators useCart, useProductSearch and                  *)
(* usePreservedCallback are imported from ../hooks, which is not among the *)
(* source files; they are modelled from their description in the           *)
(* specification (sections 4.3 to 4.5) and are marked so below.            *)
(*                                                                         *)
(* Strings whose characters the code inspects (the value of a change       *)
(* event, read by parseInt) are sequences of one-character strings.        *)
(* Discount rates are fractions in the code (0.1); here they are whole     *)
(* percents (10): Math.max and >= only read their order.                   *)
(***************************************************************************)
EXTENDS Integers, Sequences, FiniteSets, TLC

VARIABLES
    products,            \* prop: the catalog
    memberships,         \* prop: the membership list
    coupons,             \* prop: the coupon list
    keyword,             \* useState(''): the search box
    cart,                \* useCart(): the cart lines
    selectedMembership,  \* useCart(): the applied membership or null
    selectedCoupon,      \* useCart(): the applied coupon or null
    call                 \* history: the request made last, with its event

vars == <<products, memberships, coupons, keyword, cart,
          selectedMembership, selectedCoupon, call>>

---------------------------------------------------------------------------
(* Bounds of the model *)

MaxStock == 2
MaxTiers == 2
MaxTierQty == 2
MaxRateStep == 2
MaxEntries == 2

\* The + button is not gated by the stock, so a line may exceed it.
MaxQty == MaxStock + 1

---------------------------------------------------------------------------
(* Values *)

\* JavaScript's null (and undefined, which `|| null` and `?.` fold into it).
Null == [null |-> TRUE]

\* A JavaScript number: an integer, or NaN.
Num(n) == [nan |-> FALSE, n |-> n]
NaN == [nan |-> TRUE, n |-> 0]

Max(a, b) == IF a >= b THEN a ELSE b

\* The rates a tier may carry: fractions from 0 to 1 in the data model, here
\* the percents 0, 10, 20, ... (a negative rate is outside the data model;
\* both helpers start from 0 and would never return one).
RatePercents == { 10 * k : k \in 0..MaxRateStep }

Tiers == [quantity : 1..MaxTierQty, rate : RatePercents]

RECURSIVE SeqsUpTo(_, _)
SeqsUpTo(S, n) ==
    IF n = 0 THEN { <<>> }
    ELSE LET shorter == SeqsUpTo(S, n - 1)
         IN  shorter \cup { Append(s, x) : s \in { t \in shorter : Len(t) = n - 1 }, x \in S }

TierLists == SeqsUpTo(Tiers, MaxTiers)

\* The orderings of a sequence.
Orderings(s) ==
    { [i \in 1..Len(s) |-> s[f[i]]] :
        f \in { g \in [1..Len(s) -> 1..Len(s)] : \A i, j \in 1..Len(s) : g[i] = g[j] => i = j } }

Name1 == <<"a", "b">>
Name2 == <<"b", "c">>

Product(id, name, stock, discounts) ==
    [id |-> id, name |-> name, stock |-> stock, discounts |-> discounts]

Gold   == [code |-> "gold", name |-> "Gold", discountValue |-> 10]
Silver == [code |-> "silver", name |-> "Silver", discountValue |-> 5]

Bronze == [code |-> "bronze", name |-> "Bronze", discountValue |-> 0]

Coupon1 == [code |-> "AMOUNT1000", name |-> "c1", discountType |-> "amount", discountValue |-> 1000]
Coupon2 == [code |-> "PERCENT10", name |-> "c2", discountType |-> "percentage", discountValue |-> 10]
Coupon3 == [code |-> "AMOUNT5", name |-> "c3", discountType |-> "amount", discountValue |-> 5]

\* The lists of at most MaxEntries distinct entities of a pool.
EntityLists(pool) ==
    { s \in SeqsUpTo(pool, MaxEntries) : \A i, j \in 1..Len(s) : s[i] = s[j] => i = j }

---------------------------------------------------------------------------
(* CartPage: the pure helpers *)

\* getMaxDiscount with the rate of the last tier instead of the maximum.
getMaxDiscount_Last(discounts) ==
    IF discounts = <<>> THEN 0 ELSE discounts[Len(discounts)].rate

RECURSIVE reduceMax(_, _)
reduceMax(discounts, max) ==
    IF discounts = <<>> THEN max
    ELSE reduceMax(Tail(discounts), Max(max, Head(discounts).rate))

getMaxDiscount(discounts) == reduceMax(discounts, 0)

\* c.find((item) => item.product.id === productId): the first line of the
\* product, or undefined.
findItem(c, productId) ==
    LET hits == { i \in 1..Len(c) : c[i].product.id = productId }
    IN  IF hits = {} THEN Null ELSE c[CHOOSE i \in hits : \A j \in hits : i <= j]

getRemainingStockIn(c, product) ==
    LET cartItem == findItem(c, product.id)
    IN  product.stock - (IF cartItem = Null \/ cartItem.quantity = 0 THEN 0 ELSE cartItem.quantity)

\* getRemainingStock that takes the cart's first line for the product's.
getRemainingStock_FirstLine(product) ==
    product.stock - (IF cart = <<>> THEN 0 ELSE cart[1].quantity)

getRemainingStock(product) == getRemainingStockIn(cart, product)

RECURSIVE forDiscounts(_, _, _)
forDiscounts(discounts, quantity, appliedDiscount) ==
    IF discounts = <<>> THEN appliedDiscount
    ELSE LET discount == Head(discounts)
         IN  forDiscounts(Tail(discounts), quantity,
                          IF quantity >= discount.quantity
                          THEN Max(appliedDiscount, discount.rate)
                          ELSE appliedDiscount)

\* getAppliedDiscount with > for >=: a tier applies one unit late.
getAppliedDiscount_Strict(item) ==
    forDiscounts(item.product.discounts, item.quantity - 1, 0)

\* getAppliedDiscount without Math.max: the last qualifying tier wins.
getAppliedDiscount_LastWins(item) ==
    LET d == item.product.discounts
        Q == { j \in 1..Len(d) : d[j].quantity <= item.quantity }
    IN  IF Q = {} THEN 0 ELSE d[CHOOSE j \in Q : \A k \in Q : k <= j].rate

getAppliedDiscount(item) == forDiscounts(item.product.discounts, item.quantity, 0)

---------------------------------------------------------------------------
(* useCart, from the specification's section 4.4 *)

addToCart(c, product) ==
    IF findItem(c, product.id) = Null
    THEN Append(c, [product |-> product, quantity |-> 1])
    ELSE [i \in 1..Len(c) |->
            IF c[i].product.id = product.id
            THEN [c[i] EXCEPT !.quantity = @ + 1] ELSE c[i]]

removeFromCart(c, productId) ==
    LET Keep(item) == item.product.id # productId IN SelectSeq(c, Keep)

updateQuantity(c, productId, newQuantity) ==
    IF newQuantity <= 0 THEN removeFromCart(c, productId)
    ELSE [i \in 1..Len(c) |->
            IF c[i].product.id = productId
            THEN [c[i] EXCEPT !.quantity = newQuantity] ELSE c[i]]

applyMembership(membership) == membership

applyCoupon(coupon) == coupon

\* A request to the aggregator as the history variable records it: the
\* operation and its argument, the value of the event that asked for it (of
\* a change event; a click has none), and a bit that every request flips.
Request(op, arg, value) ==
    [op |-> op, arg |-> arg, value |-> value, seq |-> 1 - call.seq]

---------------------------------------------------------------------------
(* useProductSearch, from the specification's section 4.3 *)

Contains(name, k) ==
    \E i \in 0..(Len(name) - Len(k)) : \A j \in 1..Len(k) : name[i + j] = k[j]

useProductSearch(ps, k) ==
    LET Matches(p) == Contains(p.name, k) IN SelectSeq(ps, Matches)

filteredProducts == useProductSearch(products, keyword)

Keywords == { <<>>, <<"a">>, <<"z">> }

---------------------------------------------------------------------------
(* CartPage: what is rendered *)

\* The button disabled only below zero.
addButtonDisabled_Negative(product) == getRemainingStock(product) < 0

addButtonDisabled(product) == getRemainingStock(product) <= 0

\* The labels are the page's Korean texts, written here in ASCII:
\* "add-to-cart" is the add label, "sold-out" the sold-out label.
addButtonLabel(product) ==
    IF getRemainingStock(product) > 0 THEN "add-to-cart" ELSE "sold-out"

---------------------------------------------------------------------------
(* CartPage: the handlers *)

NoValue == <<>>

\* onChange of the search box.
SetKeyword(k) ==
    /\ keyword' = k
    /\ UNCHANGED <<products, memberships, coupons, cart, selectedMembership,
                   selectedCoupon, call>>

\* onClick of a product card's button; a disabled button delivers no click.
ClickAdd(i) ==
    /\ i \in 1..Len(filteredProducts)
    /\ ~addButtonDisabled(filteredProducts[i])
    /\ cart' = addToCart(cart, filteredProducts[i])
    /\ call' = Request("addToCart", filteredProducts[i], NoValue)
    /\ UNCHANGED <<products, memberships, coupons, keyword, selectedMembership,
                   selectedCoupon>>

\* onClick of a cart line's - button.
ClickMinus(i) ==
    /\ i \in 1..Len(cart)
    /\ cart' = updateQuantity(cart, cart[i].product.id, cart[i].quantity - 1)
    /\ call' = Request("updateQuantity",
                       [productId |-> cart[i].product.id, newQuantity |-> cart[i].quantity - 1],
                       NoValue)
    /\ UNCHANGED <<products, memberships, coupons, keyword, selectedMembership,
                   selectedCoupon>>

\* onClick of a cart line's + button.
ClickPlus(i) ==
    /\ i \in 1..Len(cart)
    /\ cart[i].quantity < MaxQty
    /\ cart' = updateQuantity(cart, cart[i].product.id, cart[i].quantity + 1)
    /\ call' = Request("updateQuantity",
                       [productId |-> cart[i].product.id, newQuantity |-> cart[i].quantity + 1],
                       NoValue)
    /\ UNCHANGED <<products, memberships, coupons, keyword, selectedMembership,
                   selectedCoupon>>

\* A delete button that drops the line itself and requests nothing.
ClickDelete_Direct(i) ==
    /\ i \in 1..Len(cart)
    /\ cart' = SubSeq(cart, 1, i - 1) \o SubSeq(cart, i + 1, Len(cart))
    /\ UNCHANGED <<products, memberships, coupons, keyword, selectedMembership,
                   selectedCoupon, call>>

\* onClick of a cart line's delete button.
ClickDelete(i) ==
    /\ i \in 1..Len(cart)
    /\ cart' = removeFromCart(cart, cart[i].product.id)
    /\ call' = Request("removeFromCart", [productId |-> cart[i].product.id], NoValue)
    /\ UNCHANGED <<products, memberships, coupons, keyword, selectedMembership,
                   selectedCoupon>>

---------------------------------------------------------------------------
(* parseInt(string), radix undefined (ECMAScript 19.2.5), and array indexing *)

WhiteSpace == { " " }

DigitValue(c) ==
    CASE c = "0" -> 0 [] c = "1" -> 1 [] c = "2" -> 2 [] c = "3" -> 3 [] c = "4" -> 4
      [] c = "5" -> 5 [] c = "6" -> 6 [] c = "7" -> 7 [] c = "8" -> 8 [] c = "9" -> 9
      [] c \in {"a", "A"} -> 10 [] c \in {"b", "B"} -> 11 [] c \in {"c", "C"} -> 12
      [] c \in {"d", "D"} -> 13 [] c \in {"e", "E"} -> 14 [] c \in {"f", "F"} -> 15
      [] OTHER -> 99

RECURSIVE trimStart(_)
trimStart(s) ==
    IF s # <<>> /\ Head(s) \in WhiteSpace THEN trimStart(Tail(s)) ELSE s

\* The longest prefix of s made of digits of the radix.
RECURSIVE digitsPrefix(_, _)
digitsPrefix(s, radix) ==
    IF s # <<>> /\ DigitValue(Head(s)) < radix
    THEN <<Head(s)>> \o digitsPrefix(Tail(s), radix)
    ELSE <<>>

RECURSIVE digitsValue(_, _, _)
digitsValue(s, radix, acc) ==
    IF s = <<>> THEN acc
    ELSE digitsValue(Tail(s), radix, acc * radix + DigitValue(Head(s)))

parseInt(string) ==
    LET t      == trimStart(string)
        signed == t # <<>> /\ Head(t) \in {"+", "-"}
        sign   == IF t # <<>> /\ Head(t) = "-" THEN -1 ELSE 1
        u      == IF signed THEN Tail(t) ELSE t
        hex    == Len(u) >= 2 /\ u[1] = "0" /\ u[2] \in {"x", "X"}
        radix  == IF hex THEN 16 ELSE 10
        z      == digitsPrefix(IF hex THEN SubSeq(u, 3, Len(u)) ELSE u, radix)
    IN  IF z = <<>> THEN NaN ELSE Num(sign * digitsValue(z, radix, 0))

\* The index taken one-based.
elementOrNull_OneBased(array, number) ==
    IF ~number.nan /\ number.n \in 1..Len(array) THEN array[number.n] ELSE Null

\* array[number] || null: the element at a zero-based index, null for any
\* other property key (a negative one, one past the end, "NaN").
elementOrNull(array, number) ==
    IF ~number.nan /\ number.n \in 0..(Len(array) - 1) THEN array[number.n + 1] ELSE Null

\* String(number) of a non-negative integer.
String(n) == ToString(n)

---------------------------------------------------------------------------
(* ApplyMembership and ApplyCoupon *)

\* The values of the rendered options: the blank one, then one per index.
Blank == <<>>
optionValues(list) == { Blank } \cup { <<String(i - 1)>> : i \in 1..Len(list) }

\* Values a change event may carry besides those of the rendered options.
OtherValues ==
    { <<"2">>, <<"7">>, <<"-", "1">>, <<"-", "0">>, <<"+", "1">>, <<"x">>, <<"1", "x">>,
      <<" ", "1">>, <<"0", "x", "1">>, <<"1", ".", "5">> }

\* Two of them: one past the end of a list of two, and no number.
SomeOtherValues == { <<"2">>, <<"x">> }

\* usePreservedCallback runs the latest closure: the list read is the current one.
\* The handler with `|| 0` on the index: no number selects the first entry.
handleMembershipChange_DefaultFirst(value) ==
    LET number == parseInt(value)
    IN  elementOrNull(memberships, IF number.nan THEN Num(0) ELSE number)

handleMembershipChange(value) == elementOrNull(memberships, parseInt(value))

handleCouponChange(value) == elementOrNull(coupons, parseInt(value))

MembershipChange(value) ==
    /\ selectedMembership' = applyMembership(handleMembershipChange(value))
    /\ call' = Request("applyMembership", handleMembershipChange(value), value)
    /\ UNCHANGED <<products, memberships, coupons, keyword, cart, selectedCoupon>>

CouponChange(value) ==
    /\ selectedCoupon' = applyCoupon(handleCouponChange(value))
    /\ call' = Request("applyCoupon", handleCouponChange(value), value)
    /\ UNCHANGED <<products, memberships, coupons, keyword, cart, selectedMembership>>

\* "%" and "won" (the currency suffix, U+C6D0 in the page) end the texts.
membershipOptionDiscount(membership) == String(membership.discountValue) \o "%"

\* The confirmation line of the membership widget, null when it is not rendered.
membershipConfirmation ==
    IF selectedMembership # Null
    THEN [name |-> selectedMembership.name,
          discount |-> String(selectedMembership.discountValue) \o "%"]
    ELSE Null

\* The two suffixes exchanged.
couponOptionDiscount_Swapped(coupon) ==
    IF coupon.discountType = "amount"
    THEN String(coupon.discountValue) \o "%"
    ELSE String(coupon.discountValue) \o "won"

couponOptionDiscount(coupon) ==
    IF coupon.discountType = "amount"
    THEN String(coupon.discountValue) \o "won"
    ELSE String(coupon.discountValue) \o "%"

\* The confirmation line of the coupon widget, null when it is not rendered.
couponConfirmation ==
    IF selectedCoupon # Null
    THEN [name |-> selectedCoupon.name,
          discount |-> IF selectedCoupon.discountType = "amount"
                       THEN String(selectedCoupon.discountValue) \o "won"
                       ELSE String(selectedCoupon.discountValue) \o "%"]
    ELSE Null

\* A widget that keeps the selected index and reads the entity from the list:
\* the entity now at the old position becomes the selected one.
ReorderMemberships_ByIndex(order) ==
    /\ order # memberships
    /\ memberships' = order
    /\ selectedMembership' =
         IF selectedMembership = Null THEN Null
         ELSE order[CHOOSE i \in 1..Len(memberships) : memberships[i] = selectedMembership]
    /\ UNCHANGED <<products, coupons, keyword, cart, selectedCoupon, call>>

\* The parent renders the page again with a list in another order; the page
\* has no effect that runs on it, so the aggregator's state stays.
ReorderMemberships(order) ==
    /\ order # memberships
    /\ memberships' = order
    /\ UNCHANGED <<products, coupons, keyword, cart, selectedMembership,
                   selectedCoupon, call>>

ReorderCoupons(order) ==
    /\ order # coupons
    /\ coupons' = order
    /\ UNCHANGED <<products, memberships, keyword, cart, selectedMembership,
                   selectedCoupon, call>>

---------------------------------------------------------------------------
(* The specifications *)

NoCall == [op |-> "none", arg |-> Null, value |-> NoValue, seq |-> 0]

Init ==
    /\ \E s \in {1, MaxStock} :
         products = << Product("p1", Name1, s,
                               << [quantity |-> 2, rate |-> 10], [quantity |-> 1, rate |-> 0] >>),
                       Product("p2", Name2, MaxStock, <<>>) >>
    /\ memberships = <<Gold, Silver>>
    /\ coupons = <<Coupon1, Coupon2>>
    /\ keyword = <<>>
    /\ cart = <<>>
    /\ selectedMembership = Null
    /\ selectedCoupon = Null
    /\ call = NoCall

Next ==
    \/ \E k \in Keywords : SetKeyword(k)
    \/ \E i \in 1..2 : ClickAdd(i)
    \/ \E i \in 1..2 : ClickMinus(i)
    \/ \E i \in 1..2 : ClickPlus(i)
    \/ \E i \in 1..2 : ClickDelete(i)
    \/ \E v \in optionValues(memberships) \cup SomeOtherValues : MembershipChange(v)
    \/ \E v \in optionValues(coupons) \cup SomeOtherValues : CouponChange(v)
    \/ \E order \in Orderings(memberships) : ReorderMemberships(order)
    \/ \E order \in Orderings(coupons) : ReorderCoupons(order)

Spec == Init /\ [][Next]_vars

\* The discount helpers on drawn tier lists: one product whose tiers are any
\* list of at most MaxTiers tiers, and the cart's buttons.
InitDiscount ==
    /\ \E discounts \in TierLists : products = << Product("p1", Name1, MaxStock, discounts) >>
    /\ memberships = <<Gold, Silver>>
    /\ coupons = <<Coupon1, Coupon2>>
    /\ keyword = <<>>
    /\ cart = <<>>
    /\ selectedMembership = Null
    /\ selectedCoupon = Null
    /\ call = NoCall

NextDiscount ==
    \/ \E i \in 1..1 : ClickAdd(i)
    \/ \E i \in 1..1 : ClickMinus(i)
    \/ \E i \in 1..1 : ClickPlus(i)
    \/ \E i \in 1..1 : ClickDelete(i)

SpecDiscount == InitDiscount /\ [][NextDiscount]_vars

\* The two selectors on drawn lists and event values.
InitSelectors ==
    /\ products = << Product("p1", Name1, MaxStock, <<>>) >>
    /\ memberships \in EntityLists({Gold, Silver, Bronze})
    /\ coupons \in EntityLists({Coupon1, Coupon2, Coupon3})
    /\ keyword = <<>>
    /\ cart = <<>>
    /\ selectedMembership = Null
    /\ selectedCoupon = Null
    /\ call = NoCall

NextSelectors ==
    \/ \E v \in optionValues(memberships) \cup OtherValues : MembershipChange(v)
    \/ \E v \in optionValues(coupons) \cup OtherValues : CouponChange(v)
    \/ \E order \in Orderings(memberships) : ReorderMemberships(order)
    \/ \E order \in Orderings(coupons) : ReorderCoupons(order)

SpecSelectors == InitSelectors /\ [][NextSelectors]_vars

---------------------------------------------------------------------------
(* The discount helpers *)

SetMax(S) == CHOOSE m \in S : \A x \in S : x <= m

\* The rates of the tiers of a list, and of those a quantity reaches.
Rates(discounts) == { discounts[i].rate : i \in 1..Len(discounts) }

QualifyingRates(discounts, q) ==
    { discounts[i].rate : i \in { j \in 1..Len(discounts) : discounts[j].quantity <= q } }

Thresholds(discounts) == { discounts[i].quantity : i \in 1..Len(discounts) }

\* C1: for every cart item with quantity q, getAppliedDiscount(item) is the
\* maximum rate among the item's tiers whose threshold is <= q, and 0 when no
\* tier qualifies (the empty tier list included); the order of the tiers does
\* not change it. The scenario: tiers [(2, 10%), (5, 20%)] at quantity 5 give 20%.
C1_AppliedDiscountIsMaxQualifyingRate ==
    /\ \A i \in 1..Len(cart) :
         LET item == cart[i]
             Q    == QualifyingRates(item.product.discounts, item.quantity)
         IN  /\ getAppliedDiscount(item) = IF Q = {} THEN 0 ELSE SetMax(Q)
             /\ \A order \in Orderings(item.product.discounts) :
                  getAppliedDiscount([item EXCEPT !.product.discounts = order])
                    = getAppliedDiscount(item)
    /\ getAppliedDiscount(
         [product |-> Product("p", Name1, 9, << [quantity |-> 2, rate |-> 10],
                                                [quantity |-> 5, rate |-> 20] >>),
          quantity |-> 5]) = 20

\* A cart line with two qualifying tiers, the larger rate first, and one whose
\* only positive tier is not reached yet.
C1_Witness ==
    \E i \in 1..Len(cart) :
        LET d == cart[i].product.discounts
        IN  /\ Len(d) = 2
            /\ d[1].rate > d[2].rate
            /\ d[2].quantity < d[1].quantity
            /\ d[1].quantity = cart[i].quantity
            /\ getAppliedDiscount(cart[i]) = d[1].rate

\* C2: for every tier list T of the catalog, getMaxDiscount(T) is the largest
\* rate among all tiers of T whatever their thresholds, and 0 when T is empty.
C2_MaxDiscountIsLargestRate ==
    \A i \in 1..Len(products) :
        LET T == products[i].discounts
        IN  /\ getMaxDiscount(T) = IF T = <<>> THEN 0 ELSE SetMax(Rates(T))
            /\ T = <<>> => getMaxDiscount(T) = 0

\* A product whose largest rate is on its first tier, a tier the cart line's
\* quantity does not reach.
C2_Witness ==
    \E i \in 1..Len(cart) :
        LET T == cart[i].product.discounts
        IN  /\ Len(T) = 2
            /\ T[1].rate > T[2].rate
            /\ T[1].quantity > cart[i].quantity
            /\ getMaxDiscount(T) = T[1].rate
            /\ getAppliedDiscount(cart[i]) < getMaxDiscount(T)

\* C10: for every cart item whose tier rates are non-negative, the applied
\* discount never exceeds getMaxDiscount of its tiers, raising the quantity
\* never lowers the applied discount, and the two are equal once the quantity
\* reaches the largest threshold.
C10_AppliedBelowMaxAndMonotone ==
    \A i \in 1..Len(cart) :
        LET item == cart[i]
            T    == item.product.discounts
        IN  (\A r \in Rates(T) : r >= 0) =>
              /\ getAppliedDiscount(item) <= getMaxDiscount(T)
              /\ \A q \in item.quantity..(MaxQty + 1) :
                   getAppliedDiscount(item) <= getAppliedDiscount([item EXCEPT !.quantity = q])
              /\ (\A t \in Thresholds(T) : t <= item.quantity)
                   => getAppliedDiscount(item) = getMaxDiscount(T)

\* A line below its larger tier, where one more unit raises the applied rate
\* to the maximum.
C10_Witness ==
    \E i \in 1..Len(cart) :
        LET item == cart[i]
            T    == item.product.discounts
            more == [item EXCEPT !.quantity = @ + 1]
        IN  /\ 0 < getAppliedDiscount(item)
            /\ getAppliedDiscount(item) < getAppliedDiscount(more)
            /\ getAppliedDiscount(more) = getMaxDiscount(T)
            /\ \E t \in Thresholds(T) : t > item.quantity

---------------------------------------------------------------------------
(* The page over the aggregator *)

\* C3: for every product P and every cart reached by addToCart,
\* updateQuantity and removeFromCart, getRemainingStock(P) is P.stock minus
\* the quantity of the cart line of P.id, and P.stock when no line has P.id.
C3_RemainingStockIsStockMinusCartQuantity ==
    \A i \in 1..Len(products) :
        LET P     == products[i]
            lines == { j \in 1..Len(cart) : cart[j].product.id = P.id }
        IN  /\ lines = {} => getRemainingStock(P) = P.stock
            /\ \A j \in lines : getRemainingStock(P) = P.stock - cart[j].quantity

\* The first product's line is the cart's second, raised to two units or more.
C3_Witness ==
    /\ Len(cart) = 2
    /\ cart[2].product.id = products[1].id
    /\ cart[2].quantity >= 2
    /\ cart[1].quantity # cart[2].quantity
    /\ call.op = "updateQuantity"
    /\ getRemainingStock(products[1]) = products[1].stock - cart[2].quantity

\* C4: in every state, for every listed product, the add button is disabled
\* and labelled sold-out exactly when the remaining stock is <= 0, and enabled
\* and labelled add-to-cart exactly when it is > 0; and no step requests
\* addToCart for a product whose remaining stock is <= 0.
C4_AddButtonGate ==
    /\ [](\A i \in 1..Len(filteredProducts) :
            LET P == filteredProducts[i]
            IN  /\ (addButtonDisabled(P) /\ addButtonLabel(P) = "sold-out")
                      <=> getRemainingStock(P) <= 0
                /\ (~addButtonDisabled(P) /\ addButtonLabel(P) = "add-to-cart")
                      <=> getRemainingStock(P) > 0
                /\ addButtonDisabled(P) <=> addButtonLabel(P) = "sold-out")
    /\ [][(call'.seq # call.seq /\ call'.op = "addToCart")
            => getRemainingStock(call'.arg) > 0]_vars

\* The add button has just taken the last unit of a listed product, which is
\* now sold out beside a product that is not.
C4_Witness ==
    /\ call.op = "addToCart"
    /\ \E i, j \in 1..Len(filteredProducts) :
         /\ filteredProducts[i].id = call.arg.id
         /\ getRemainingStock(filteredProducts[i]) = 0
         /\ addButtonDisabled(filteredProducts[i])
         /\ ~addButtonDisabled(filteredProducts[j])
         /\ addButtonLabel(filteredProducts[j]) = "add-to-cart"

Shared == <<cart, selectedMembership, selectedCoupon>>

\* C7: the page never changes the shared state itself: every step that
\* changes the cart, the selected membership or the selected coupon is one
\* request to addToCart, removeFromCart, updateQuantity, applyMembership or
\* applyCoupon, and changes it as that operation does; a step without a
\* request (typing in the search box, a new render) leaves all three alone.
C7_SharedStateChangesOnlyByRequests ==
    [][Shared' # Shared =>
        /\ call'.seq # call.seq
        /\ \/ /\ call'.op = "addToCart"
              /\ cart' = addToCart(cart, call'.arg)
              /\ UNCHANGED <<selectedMembership, selectedCoupon>>
           \/ /\ call'.op = "removeFromCart"
              /\ cart' = removeFromCart(cart, call'.arg.productId)
              /\ UNCHANGED <<selectedMembership, selectedCoupon>>
           \/ /\ call'.op = "updateQuantity"
              /\ cart' = updateQuantity(cart, call'.arg.productId, call'.arg.newQuantity)
              /\ UNCHANGED <<selectedMembership, selectedCoupon>>
           \/ /\ call'.op = "applyMembership"
              /\ selectedMembership' = applyMembership(call'.arg)
              /\ UNCHANGED <<cart, selectedCoupon>>
           \/ /\ call'.op = "applyCoupon"
              /\ selectedCoupon' = applyCoupon(call'.arg)
              /\ UNCHANGED <<cart, selectedMembership>>]_vars

\* After a delete request emptied the cart, with a keyword typed and both
\* selections made.
C7_Witness ==
    /\ call.op = "removeFromCart"
    /\ cart = <<>>
    /\ keyword # <<>>
    /\ selectedMembership # Null
    /\ selectedCoupon # Null

---------------------------------------------------------------------------
(* The selectors *)

\* C5: after any sequence of change events, a change event with the blank
\* option's value on the membership (coupon) selector calls the change
\* callback with null: the selected membership (coupon) is null afterwards
\* and its confirmation line is not rendered, whatever was selected before.
C5_BlankOptionClearsSelection ==
    [][(call'.seq # call.seq /\ call'.value = Blank) =>
        /\ call'.op = "applyMembership" =>
             /\ call'.arg = Null
             /\ selectedMembership' = Null
             /\ membershipConfirmation' = Null
        /\ call'.op = "applyCoupon" =>
             /\ call'.arg = Null
             /\ selectedCoupon' = Null
             /\ couponConfirmation' = Null]_vars

\* The blank option was chosen on the membership selector of a list of two,
\* as a later request than the first two, while a coupon stays applied.
C5_Witness ==
    /\ call.op = "applyMembership"
    /\ call.value = Blank
    /\ Len(memberships) = 2
    /\ selectedMembership = Null
    /\ membershipConfirmation = Null
    /\ selectedCoupon # Null
    /\ couponConfirmation # Null

\* What a change event with a value must report for a list.
ReportsByIndex(list, value, reported) ==
    LET number  == parseInt(value)
        inRange == ~number.nan /\ 0 <= number.n /\ number.n < Len(list)
    IN  /\ inRange => reported = list[number.n + 1]
        /\ ~inRange => reported = Null
        /\ reported = Null \/ \E i \in 1..Len(list) : reported = list[i]
        /\ \A i \in 1..Len(list) : value = <<String(i - 1)>> => reported = list[i]
        /\ value \in { Blank, <<"x">>, <<"-", "1">>, <<"7">> } => reported = Null

\* C6: for every change event of the membership or coupon selector, a value
\* that parses to an index i with 0 <= i < the list's length reports the
\* entity at position i, and a value out of range or not a number reports
\* null; the handler reports for every value and never reports an entity that
\* is not in the list.
C6_ChangeReportsEntityAtIndexOrNull ==
    /\ [][call'.seq # call.seq =>
            /\ call'.op = "applyMembership" =>
                 /\ ReportsByIndex(memberships, call'.value, call'.arg)
                 /\ selectedMembership' = call'.arg
            /\ call'.op = "applyCoupon" =>
                 /\ ReportsByIndex(coupons, call'.value, call'.arg)
                 /\ selectedCoupon' = call'.arg]_vars
    /\ [](\A value \in OtherValues \cup optionValues(memberships) \cup optionValues(coupons) :
            /\ ReportsByIndex(memberships, value, handleMembershipChange(value))
            /\ ReportsByIndex(coupons, value, handleCouponChange(value)))

\* An index one past the end of a list of two has just cleared a membership,
\* and the coupon at the last index is applied.
C6_Witness ==
    /\ call.op = "applyMembership"
    /\ call.value = <<"2">>
    /\ Len(memberships) = 2
    /\ call.arg = Null
    /\ selectedMembership = Null
    /\ Len(coupons) = 2
    /\ selectedCoupon = coupons[2]

Digits == <<"0", "1", "2", "3", "4", "5", "6", "7", "8", "9">>

RECURSIVE Decimal(_)
Decimal(n) ==
    IF n < 10 THEN Digits[n + 1] ELSE Decimal(n \div 10) \o Digits[(n % 10) + 1]

ExpectedDiscountText(coupon) ==
    Decimal(coupon.discountValue) \o (IF coupon.discountType = "amount" THEN "won" ELSE "%")

\* C8: for every coupon, in the selector's option and in the confirmation
\* line, the discount is the value followed by the currency suffix when
\* discountType is 'amount' and by '%' otherwise: amount 1000 renders
\* "1000" and the suffix, percentage 10 renders "10%".
C8_CouponDiscountText ==
    /\ \A i \in 1..Len(coupons) :
         /\ couponOptionDiscount(coupons[i]) = ExpectedDiscountText(coupons[i])
         /\ coupons[i] = Coupon1 => couponOptionDiscount(coupons[i]) = "1000won"
         /\ coupons[i] = Coupon2 => couponOptionDiscount(coupons[i]) = "10%"
    /\ selectedCoupon # Null =>
         /\ couponConfirmation # Null
         /\ couponConfirmation.name = selectedCoupon.name
         /\ couponConfirmation.discount = ExpectedDiscountText(selectedCoupon)
         /\ selectedCoupon = Coupon1 => couponConfirmation.discount = "1000won"
         /\ selectedCoupon = Coupon2 => couponConfirmation.discount = "10%"

\* The amount coupon is applied and listed beside the percentage coupon.
C8_Witness ==
    /\ selectedCoupon = Coupon1
    /\ call.op = "applyCoupon"
    /\ couponConfirmation.discount = "1000won"
    /\ \E i \in 1..Len(coupons) : couponOptionDiscount(coupons[i]) = "10%"

\* The entity has another position in the list after than in the list before.
Moved(before, after, entity) ==
    \E i \in 1..Len(before) :
        /\ before[i] = entity
        /\ after[i] # entity
        /\ \E j \in 1..Len(after) : after[j] = entity

\* C9, as the specification's open question states it: a render in which the
\* applied membership (coupon) and another swap positions changes the applied
\* membership (coupon) though no selection event happened.
C9_SwapChangesAppliedModifier ==
    [][/\ (Moved(memberships, memberships', selectedMembership) /\ call' = call)
            => selectedMembership' # selectedMembership
       /\ (Moved(coupons, coupons', selectedCoupon) /\ call' = call)
            => selectedCoupon' # selectedCoupon]_vars

\* C9, amended: the index is read only when a change event is handled; a
\* render with the lists in another order leaves the applied membership and
\* coupon as they are, and they change only by a request of a change event,
\* to the entity that request reported.
C9_SwapKeepsAppliedModifier ==
    [][/\ (memberships' # memberships \/ coupons' # coupons)
            => UNCHANGED <<selectedMembership, selectedCoupon, call>>
       /\ selectedMembership' # selectedMembership
            => /\ call'.seq # call.seq
               /\ call'.op = "applyMembership"
               /\ selectedMembership' = call'.arg
       /\ selectedCoupon' # selectedCoupon
            => /\ call'.seq # call.seq
               /\ call'.op = "applyCoupon"
               /\ selectedCoupon' = call'.arg]_vars

\* The applied membership was selected by an index at which the list, in its
\* order of now, holds another membership.
C9_Witness ==
    /\ selectedMembership # Null
    /\ call.op = "applyMembership"
    /\ call.arg = selectedMembership
    /\ handleMembershipChange(call.value) # Null
    /\ handleMembershipChange(call.value) # selectedMembership

===========================================================================
